---- MODULE Spec2Model ----
(***************************************************************************)
(* A model of grader.py: the lexical stripper, the two style rules, the    *)
(* response parser and the grade_submissions batch loop.  Texts are        *)
(* sequences of one-character strings, so that prefix tests, trimming,     *)
(* splitting and regular-expression matches are computed position by       *)
(* position as Python computes them.                                       *)
(***************************************************************************)
EXTENDS Integers, Sequences, FiniteSets, TLC

VARIABLES
    pc,          \* position of the operation being run
    code,        \* text handed to remove_comments_and_strings / the style rules
    view,        \* value returned by remove_comments_and_strings
    errors,      \* value returned by check_brackets
    violation,   \* value returned by check_new_lines
    response,    \* text handed to parse_ai_response
    parsed,      \* value returned by parse_ai_response
    files,       \* grade_submissions: content of each file of java_files
    config,      \* grade_submissions: the config argument
    grading_breakdown_dir,  \* grade_submissions: the argument of that name
    dirs,        \* the directories that exist
    written,     \* the breakdown files on disk: path -> content
    assignment,  \* what parse_assignment_pdf returned: "extracted" or "None"
    idx,         \* position of the for loop in java_files
    student_name,  \* local of the loop body
    ai_response,   \* local of the loop body
    results,     \* the list of rows
    reported,    \* the "Error grading <name>" lines printed
    outcome      \* history: how the processing of each file ended

textVars == <<code, view, errors, violation>>
parseVars == <<response, parsed>>
batchVars ==
    <<files, config, grading_breakdown_dir, dirs, written, assignment, idx,
      student_name, ai_response, results, reported, outcome>>
vars == <<pc, textVars, parseVars, batchVars>>

\* the variables of the operations a specification does not run
NoText == code = <<>> /\ view = <<>> /\ errors = 0 /\ violation = FALSE
NoParse == response = <<>> /\ parsed = <<>>
NoBatch ==
    /\ files = <<>> /\ config = <<>> /\ grading_breakdown_dir = ""
    /\ dirs = {} /\ written = <<>> /\ assignment = "" /\ idx = 0
    /\ student_name = <<>> /\ ai_response = <<>> /\ results = <<>>
    /\ reported = <<>> /\ outcome = <<>>

---------------------------------------------------------------------------
(* Bounds of the explored inputs *)

\* longest text, in characters, handed to the stripper
MaxLen == 5

\* longest text, in pieces of BracketChunks, handed to check_brackets
MaxBracketChunks == 5

\* longest text, in pieces of PrintChunks, handed to check_new_lines
MaxPrintChunks == 5

\* longest text, in pieces of ResponseChunks, handed to parse_ai_response
MaxResponseChunks == 4

\* number of submissions find_student_java_files returns
NumFiles == 2

---------------------------------------------------------------------------
(* Text helpers *)

NL == "\n"
SP == " "
BS == "\\"
DQ == "\""
SQ == "'"

\* All sequences over alphabet of length at most n
Texts(alphabet, n) == UNION {[1..k -> alphabet] : k \in 0..n}

\* ' ' * n
Spaces(n) == [k \in 1..n |-> SP]

\* s[i:] starts with pat (i is 1-based)
StartsWithAt(s, pat, i) ==
    /\ i + Len(pat) - 1 <= Len(s)
    /\ \A k \in 1..Len(pat) : s[i + k - 1] = pat[k]

\* least position >= from at which pat occurs in s, 0 if none
Find(s, pat, from) ==
    LET hits == {i \in from..Len(s) : StartsWithAt(s, pat, i)}
    IN  IF hits = {} THEN 0 ELSE CHOOSE i \in hits : \A j \in hits : i <= j

---------------------------------------------------------------------------
(* remove_comments_and_strings: one compiled alternation, re.sub *)

AllKinds == <<"line", "block", "string", "char">>

\* //.*?$ under re.MULTILINE: "." stops at a newline, "$" holds before a
\* newline or at the end of the text.  Exclusive end of the match, 0 if none.
LineCommentEnd(s, i) ==
    IF StartsWithAt(s, <<"/", "/">>, i)
    THEN LET stops == {j \in (i + 2)..Len(s) : s[j] = NL}
         IN  IF stops = {} THEN Len(s) + 1
             ELSE CHOOSE j \in stops : \A k \in stops : j <= k
    ELSE 0

\* /\*[\s\S]*?\*/ : up to the first "*/" that starts after the opener
BlockCommentEnd(s, i) ==
    IF StartsWithAt(s, <<"/", "*">>, i)
    THEN LET k == Find(s, <<"*", "/">>, i + 2)
         IN  IF k = 0 THEN 0 ELSE k + 2
    ELSE 0

\* (?:\\.|[^q\\])*q from position j: an escape is a backslash and one
\* character other than a newline; any other character but q and the
\* backslash (a newline included) is consumed; the parse has no alternative,
\* so backtracking never finds another match.
RECURSIVE QuotedBodyEnd(_, _, _)
QuotedBodyEnd(s, j, q) ==
    IF j > Len(s) THEN 0
    ELSE IF s[j] = q THEN j + 1
    ELSE IF s[j] = BS
         THEN IF j + 1 <= Len(s) /\ s[j + 1] # NL
              THEN QuotedBodyEnd(s, j + 2, q)
              ELSE 0
    ELSE QuotedBodyEnd(s, j + 1, q)

QuotedEnd(s, i, q) ==
    IF i <= Len(s) /\ s[i] = q THEN QuotedBodyEnd(s, i + 1, q) ELSE 0

KindEnd(s, i, kind) ==
    CASE kind = "line"   -> LineCommentEnd(s, i)
      [] kind = "block"  -> BlockCommentEnd(s, i)
      [] kind = "string" -> QuotedEnd(s, i, DQ)
      [] kind = "char"   -> QuotedEnd(s, i, SQ)

\* the alternation at position i: the first alternative, in the order
\* written, that matches; 0 if none does
MatchEnd(s, i, kinds) ==
    LET ok == {n \in 1..Len(kinds) : KindEnd(s, i, kinds[n]) # 0}
    IN  IF ok = {} THEN 0
        ELSE KindEnd(s, i, kinds[CHOOSE n \in ok : \A m \in ok : n <= m])

\* regex.sub(lambda m: ' ' * (m.end() - m.start()), code): leftmost
\* non-overlapping matches, every matched character replaced by a space
RECURSIVE SubFrom(_, _, _)
SubFrom(s, i, kinds) ==
    LET starts == {j \in i..Len(s) : MatchEnd(s, j, kinds) # 0}
    IN  IF starts = {} THEN SubSeq(s, i, Len(s))
        ELSE LET j == CHOOSE x \in starts : \A y \in starts : x <= y
                 e == MatchEnd(s, j, kinds)
             IN  SubSeq(s, i, j - 1) \o Spaces(e - j) \o SubFrom(s, e, kinds)

\* a stripper that runs the comment patterns and the literal patterns as two
\* independent passes
remove_comments_and_strings_two_passes(s) ==
    SubFrom(SubFrom(s, 1, <<"line", "block">>), 1, <<"string", "char">>)

remove_comments_and_strings(s) == SubFrom(s, 1, AllKinds)

---------------------------------------------------------------------------
(* The stripper applied to every text over its alphabet *)

StripAlphabet == {"/", "*", DQ, SQ, BS, NL, "a"}

InitStrip ==
    /\ pc = "input"
    /\ code \in Texts(StripAlphabet, MaxLen)
    /\ view = <<>>
    /\ errors = 0
    /\ violation = FALSE
    /\ NoParse
    /\ NoBatch

RunStripper ==
    /\ pc = "input"
    /\ view' = remove_comments_and_strings(code)
    /\ pc' = "stripped"
    /\ UNCHANGED <<code, errors, violation, parseVars, batchVars>>

NextStrip == RunStripper

SpecStrip == InitStrip /\ [][NextStrip]_vars

---------------------------------------------------------------------------
(* str.split('\n') *)

\* the positions of the newlines of s
NewlinesOf(s) == {i \in 1..Len(s) : s[i] = NL}

\* the k-th smallest element of a finite set of integers
KthOf(S, k) == CHOOSE x \in S : Cardinality({y \in S : y < x}) = k - 1

\* line n runs from just after newline n-1 to just before newline n (or to
\* the end of the text)
Split(s) ==
    LET nls == NewlinesOf(s)
        n == Cardinality(nls)
        from(k) == IF k = 1 THEN 1 ELSE KthOf(nls, k - 1) + 1
        to(k) == IF k = n + 1 THEN Len(s) ELSE KthOf(nls, k) - 1
    IN  [k \in 1..(n + 1) |-> SubSeq(s, from(k), to(k))]

---------------------------------------------------------------------------
(* The constructs of a text, read by an explicit left-to-right scanner with *)
(* the states normal, line, block, string and char.  It is the yardstick    *)
(* the stripper's claims are stated against: inside[i] says that character  *)
(* i belongs to a comment or a literal (its delimiters included), final is  *)
(* the state at the end of the text, and escNL says that some backslash     *)
(* inside a literal is immediately followed by a newline.                   *)

RECURSIVE Scan(_, _, _, _, _)
Scan(s, i, st, inside, escNL) ==
    IF i > Len(s) THEN [inside |-> inside, final |-> st, escNL |-> escNL]
    ELSE CASE st = "normal" ->
                IF StartsWithAt(s, <<"/", "/">>, i)
                THEN Scan(s, i + 2, "line", inside \o <<TRUE, TRUE>>, escNL)
                ELSE IF StartsWithAt(s, <<"/", "*">>, i)
                THEN Scan(s, i + 2, "block", inside \o <<TRUE, TRUE>>, escNL)
                ELSE IF s[i] = DQ
                THEN Scan(s, i + 1, "string", Append(inside, TRUE), escNL)
                ELSE IF s[i] = SQ
                THEN Scan(s, i + 1, "char", Append(inside, TRUE), escNL)
                ELSE Scan(s, i + 1, "normal", Append(inside, FALSE), escNL)
           [] st = "line" ->
                IF s[i] = NL
                THEN Scan(s, i + 1, "normal", Append(inside, FALSE), escNL)
                ELSE Scan(s, i + 1, "line", Append(inside, TRUE), escNL)
           [] st = "block" ->
                IF StartsWithAt(s, <<"*", "/">>, i)
                THEN Scan(s, i + 2, "normal", inside \o <<TRUE, TRUE>>, escNL)
                ELSE Scan(s, i + 1, "block", Append(inside, TRUE), escNL)
           [] st \in {"string", "char"} ->
                IF s[i] = BS /\ i + 1 <= Len(s)
                THEN Scan(s, i + 2, st, inside \o <<TRUE, TRUE>>,
                          escNL \/ s[i + 1] = NL)
                ELSE IF s[i] = (IF st = "string" THEN DQ ELSE SQ)
                THEN Scan(s, i + 1, "normal", Append(inside, TRUE), escNL)
                ELSE Scan(s, i + 1, st, Append(inside, TRUE), escNL)

Constructs(s) == Scan(s, 1, "normal", <<>>, FALSE)

\* every comment and every literal of s is closed
AllTerminated(s) == Constructs(s).final \in {"normal", "line"}

\* out blanks exactly the characters of s that lie inside a construct
BlanksExactlyConstructs(s, out) ==
    /\ Len(out) = Len(s)
    /\ \A i \in 1..Len(s) :
          out[i] = (IF Constructs(s).inside[i] THEN SP ELSE s[i])

---------------------------------------------------------------------------
(* Claims about remove_comments_and_strings, under SpecStrip *)

\* C4 (as claimed): the stripped text has as many lines as the input and
\* every line has the length of the input's line: newlines inside a block
\* comment or a literal stay newlines.
C4_LineStructureKept ==
    pc = "stripped" =>
        /\ Len(Split(view)) = Len(Split(code))
        /\ \A n \in 1..Len(Split(code)) :
              Len(Split(view)[n]) = Len(Split(code)[n])

---------------------------------------------------------------------------
(* More text helpers *)

\* the characters str.strip() removes
IsSpace(c) == c \in {SP, NL, "\t", "\r"}

\* str.strip()
strip(s) ==
    LET keep == {i \in 1..Len(s) : ~IsSpace(s[i])}
    IN  IF keep = {} THEN <<>>
        ELSE SubSeq(s, CHOOSE i \in keep : \A j \in keep : i <= j,
                       CHOOSE i \in keep : \A j \in keep : i >= j)

\* str.startswith
startswith(s, pat) == StartsWithAt(s, pat, 1)

\* c in s
Contains(s, c) == \E i \in 1..Len(s) : s[i] = c

\* f.readlines(): the lines with their line endings, none for an empty text
readlines(s) ==
    LET nls == NewlinesOf(s)
        n == Cardinality(nls)
        \* a last line without a line ending
        rest == IF Len(s) > 0 /\ s[Len(s)] # NL THEN 1 ELSE 0
        from(k) == IF k = 1 THEN 1 ELSE KthOf(nls, k - 1) + 1
        to(k) == IF k = n + 1 THEN Len(s) ELSE KthOf(nls, k)
    IN  [k \in 1..(n + rest) |-> SubSeq(s, from(k), to(k))]

\* the concatenation of a sequence of texts
RECURSIVE Flatten(_)
Flatten(ss) == IF ss = <<>> THEN <<>> ELSE Head(ss) \o Flatten(Tail(ss))

\* every text made of at most n pieces of chunks
ChunkTexts(chunks, n) == {Flatten(cs) : cs \in Texts(chunks, n)}

---------------------------------------------------------------------------
(* check_brackets *)

\* the loop body's test: the line counts as an error
BracketError(line) ==
    LET stripped_line == strip(line)
    IN  /\ stripped_line # <<>>
        /\ Contains(stripped_line, "{") \/ Contains(stripped_line, "}")
        /\ ~(stripped_line = <<"{">> \/ stripped_line = <<"}">>)

RECURSIVE CountErrors(_, _)
CountErrors(lines, n) ==
    IF n > Len(lines) THEN 0
    ELSE (IF BracketError(lines[n]) THEN 1 ELSE 0) + CountErrors(lines, n + 1)

check_brackets(text) ==
    CountErrors(Split(remove_comments_and_strings(text)), 1)

---------------------------------------------------------------------------
(* check_new_lines *)

\* 'System.out.println('
Println ==
    <<"S", "y", "s", "t", "e", "m", ".", "o", "u", "t", ".",
      "p", "r", "i", "n", "t", "l", "n", "(">>

\* required_print: the characters of System.out.println("\n\n\n"); with each
\* \n the two characters backslash and n
required_print ==
    Println \o <<DQ, BS, "n", BS, "n", BS, "n", DQ, ")", ";">>

\* stands for Python's None: readlines never yields an empty line
None == <<>>

\* the lines the loop takes for print statements
PrintLines(lines) == SelectSeq(lines, LAMBDA line : startswith(line, Println))

first_print(lines) ==
    IF PrintLines(lines) = <<>> THEN None ELSE PrintLines(lines)[1]

last_print(lines) ==
    IF PrintLines(lines) = <<>> THEN None
    ELSE PrintLines(lines)[Len(PrintLines(lines))]

\* the chained comparison a != b != c is (a != b) and (b != c), and + binds
\* tighter than != : b is required_print + last_print
check_new_lines(text) ==
    LET lines == readlines(text)
        fp == first_print(lines)
        lp == last_print(lines)
    IN  IF fp = None \/ lp = None THEN FALSE
        ELSE /\ fp # required_print \o lp
             /\ required_print \o lp # required_print

---------------------------------------------------------------------------
(* The two style rules applied to every text made of a few pieces *)

BracketChunks ==
    {<<"{">>, <<"}">>, <<SP>>, <<NL>>, <<"a">>, <<"/", "*">>, <<"*", "/">>}

InitBrackets ==
    /\ pc = "input"
    /\ code \in ChunkTexts(BracketChunks, MaxBracketChunks)
    /\ view = <<>>
    /\ errors = 0
    /\ violation = FALSE
    /\ NoParse
    /\ NoBatch

RunCheckBrackets ==
    /\ pc = "input"
    /\ errors' = check_brackets(code)
    /\ view' = remove_comments_and_strings(code)
    /\ pc' = "checked"
    /\ UNCHANGED <<code, violation, parseVars, batchVars>>

NextBrackets == RunCheckBrackets

SpecBrackets == InitBrackets /\ [][NextBrackets]_vars

PrintChunks ==
    {Println, required_print, <<DQ, "x", DQ, ")", ";">>, <<SP>>, <<NL>>}

InitNewLines ==
    /\ pc = "input"
    /\ code \in ChunkTexts(PrintChunks, MaxPrintChunks)
    /\ view = <<>>
    /\ errors = 0
    /\ violation = FALSE
    /\ NoParse
    /\ NoBatch

RunCheckNewLines ==
    /\ pc = "input"
    /\ violation' = check_new_lines(code)
    /\ pc' = "checked"
    /\ UNCHANGED <<code, view, errors, parseVars, batchVars>>

NextNewLines == RunCheckNewLines

SpecNewLines == InitNewLines /\ [][NextNewLines]_vars

---------------------------------------------------------------------------
(* Claims about the style rules *)

\* a line without its line ending
Statement(line) ==
    IF line # <<>> /\ line[Len(line)] = NL
    THEN SubSeq(line, 1, Len(line) - 1) ELSE line

\* C1 (as claimed): with at least one print statement, check_new_lines
\* reports a violation exactly when the first or the last print statement
\* differs from the required boundary literal; with none it reports no
\* violation.
C1_BoundaryRule ==
    pc = "checked" =>
        LET lines == readlines(code)
        IN  violation =
              /\ PrintLines(lines) # <<>>
              /\ \/ Statement(first_print(lines)) # required_print
                 \/ Statement(last_print(lines)) # required_print

\* the lines whose trimmed content begins with System.out.println(
TrimmedPrintLines(lines) ==
    SelectSeq(lines, LAMBDA line : startswith(strip(line), Println))

\* C2 (as claimed): the print statements check_new_lines picks its first and
\* last from are the lines that begin with System.out.println( after
\* trimming, so an indented print line is a candidate like an unindented one.
C2_TrimmedLinesAreCandidates ==
    pc = "checked" =>
        PrintLines(readlines(code)) = TrimmedPrintLines(readlines(code))

\* the structural view that keeps line and column positions: the stripper's
\* output with the input's newlines in place
StructuralView(text) ==
    [i \in 1..Len(text) |->
        IF text[i] = NL THEN NL ELSE remove_comments_and_strings(text)[i]]

\* C3 (as claimed): check_brackets returns the number of non-blank lines of
\* the position-preserving structural view that hold a brace and are not
\* exactly one brace; a text whose braces are each alone on their line of
\* that view yields 0.
C3_CountsBraceLinesOfView ==
    pc = "checked" =>
        errors = CountErrors(Split(StructuralView(code)), 1)

---------------------------------------------------------------------------
(* parse_ai_response *)

SCORE_ == <<"S", "C", "O", "R", "E", ":">>
COMMENTS_ == <<"C", "O", "M", "M", "E", "N", "T", "S", ":">>
CONFIDENCE_ == <<"C", "O", "N", "F", "I", "D", "E", "N", "C", "E", ":">>

\* re.sub(r'[\n\s*#]', '', response)
Cleaned(text) ==
    SelectSeq(text, LAMBDA c : ~(IsSpace(c) \/ c \in {"*", "#"}))

\* re.search(open(.*?)close, s).group(1), "" without a match: the leftmost
\* open that some close follows, up to the first such close (s holds no
\* newline, so "." matches every character)
LazyGroup(s, open, close) ==
    LET starts == {i \in 1..Len(s) :
                      /\ StartsWithAt(s, open, i)
                      /\ Find(s, close, i + Len(open)) # 0}
    IN  IF starts = {} THEN <<>>
        ELSE LET i == CHOOSE x \in starts : \A y \in starts : x <= y
             IN  SubSeq(s, i + Len(open), Find(s, close, i + Len(open)) - 1)

\* re.search(open(.*?)$, s).group(1), "" without a match
TailGroup(s, open) ==
    IF Find(s, open, 1) = 0 THEN <<>>
    ELSE SubSeq(s, Find(s, open, 1) + Len(open), Len(s))

Digits == <<"0", "1", "2", "3", "4", "5", "6", "7", "8", "9">>

IsDigit(c) == \E d \in 1..10 : Digits[d] = c

DigitValue(c) == (CHOOSE d \in 1..10 : Digits[d] = c) - 1

RECURSIVE Pow10(_)
Pow10(n) == IF n = 0 THEN 1 ELSE 10 * Pow10(n - 1)

\* the integer a sequence of digits writes
RECURSIVE DigitsValue(_)
DigitsValue(ds) ==
    IF ds = <<>> THEN 0
    ELSE 10 * DigitsValue(SubSeq(ds, 1, Len(ds) - 1)) + DigitValue(ds[Len(ds)])

\* a number as the fraction num / den
Number(num, den) == [num |-> num, den |-> den]

NumEq(a, b) == a.num * b.den = b.num * a.den

\* float(text) for the texts made of a sign, digits, a point and other
\* characters: [sign] digits [. [digits]] or [sign] . digits is a number, the
\* empty text and every text with another character raise ValueError
\* (exponents, underscores, inf and nan cannot be written with the characters
\* of the explored responses)
float(text) ==
    LET signed == text # <<>> /\ text[1] \in {"+", "-"}
        body == IF signed THEN Tail(text) ELSE text
        points == {i \in 1..Len(body) : body[i] = "."}
        digits == SelectSeq(body, IsDigit)
        wellFormed ==
            /\ \A i \in 1..Len(body) : IsDigit(body[i]) \/ body[i] = "."
            /\ Cardinality(points) <= 1
            /\ digits # <<>>
        fraction == IF points = {} THEN 0
                    ELSE Len(body) - (CHOOSE i \in points : TRUE)
        magnitude == DigitsValue(digits)
    IN  IF wellFormed
        THEN [error |-> "",
              value |-> Number(IF signed /\ text[1] = "-"
                               THEN 0 - magnitude ELSE magnitude,
                               Pow10(fraction))]
        ELSE [error |-> "ValueError", value |-> Number(0, 1)]

\* the score the except branch sets
Sentinel == Number(-100, 1)

\* parse_ai_response without its try/except
parse_ai_response_unguarded(text) ==
    LET cleaned_response == Cleaned(text)
        score == LazyGroup(cleaned_response, SCORE_, COMMENTS_)
    IN  [raised |-> float(score).error,
         score |-> float(score).value,
         comments |-> LazyGroup(cleaned_response, COMMENTS_, CONFIDENCE_),
         confidence |-> TailGroup(cleaned_response, CONFIDENCE_)]

\* raised names the exception that leaves the function, "" for a return
parse_ai_response(text) ==
    LET cleaned_response == Cleaned(text)
        score == LazyGroup(cleaned_response, SCORE_, COMMENTS_)
        comments == LazyGroup(cleaned_response, COMMENTS_, CONFIDENCE_)
        confidence == TailGroup(cleaned_response, CONFIDENCE_)
        parsed_score == float(score)
    IN  [raised |-> IF parsed_score.error = "ValueError" THEN ""
                    ELSE parsed_score.error,
         score |-> IF parsed_score.error = "ValueError" THEN Sentinel
                   ELSE parsed_score.value,
         comments |-> comments,
         confidence |-> confidence]

---------------------------------------------------------------------------
(* The parser applied to every response made of a few pieces, and to the    *)
(* response SCORE:85\nCOMMENTS: good job\nCONFIDENCE:4                      *)

ResponseChunks ==
    {SCORE_, COMMENTS_, CONFIDENCE_, <<"8">>, <<".">>, <<SP>>, <<"*">>,
     <<"g", "o">>}

ExampleResponse ==
    SCORE_ \o <<"8", "5", NL>> \o
    COMMENTS_ \o <<SP, "g", "o", "o", "d", SP, "j", "o", "b", NL>> \o
    CONFIDENCE_ \o <<"4">>

InitParse ==
    /\ pc = "input"
    /\ response \in
         ChunkTexts(ResponseChunks, MaxResponseChunks) \cup {ExampleResponse}
    /\ parsed = <<>>
    /\ NoText
    /\ NoBatch

RunParse ==
    /\ pc = "input"
    /\ parsed' = parse_ai_response(response)
    /\ pc' = "parsed"
    /\ UNCHANGED <<response, textVars, batchVars>>

NextParse == RunParse

SpecParse == InitParse /\ [][NextParse]_vars

---------------------------------------------------------------------------
(* Claims about parse_ai_response, under SpecParse *)

\* both markers of a field are in the cleaned text
HasMarker(text, marker) == Find(Cleaned(text), marker, 1) # 0

\* C6: parse_ai_response never raises; a field with a marker missing from
\* the cleaned text is the empty string; an empty or non-numeric score field
\* gives the sentinel score -100.
C6_DefensiveParse ==
    pc = "parsed" =>
        /\ parsed.raised = ""
        /\ ~(HasMarker(response, SCORE_) /\ HasMarker(response, COMMENTS_))
              => NumEq(parsed.score, Number(-100, 1))
        /\ ~(HasMarker(response, COMMENTS_) /\ HasMarker(response, CONFIDENCE_))
              => parsed.comments = <<>>
        /\ ~HasMarker(response, CONFIDENCE_) => parsed.confidence = <<>>
        /\ LET field == LazyGroup(Cleaned(response), SCORE_, COMMENTS_)
           IN  (field = <<>> \/ float(field).error # "")
                  => NumEq(parsed.score, Number(-100, 1))

\* C6 witness: a response with SCORE: and COMMENTS: whose score field is not
\* a number, and no CONFIDENCE:, has been parsed to the sentinel score.
C6_Witness ==
    /\ pc = "parsed"
    /\ HasMarker(response, SCORE_) /\ HasMarker(response, COMMENTS_)
    /\ ~HasMarker(response, CONFIDENCE_)
    /\ LazyGroup(Cleaned(response), SCORE_, COMMENTS_) = <<"g", "o">>
    /\ parsed.score = Number(-100, 1)
    /\ parsed.confidence = <<>>

\* the text of s between the first open and the next close after it
Between(s, open, close) ==
    SubSeq(s, Find(s, open, 1) + Len(open),
              Find(s, close, Find(s, open, 1) + Len(open)) - 1)

\* the number of occurrences of marker in s
Occurrences(s, marker) ==
    Cardinality({i \in 1..Len(s) : StartsWithAt(s, marker, i)})

\* the response carries SCORE:, then COMMENTS:, then CONFIDENCE:, each once
MarkersInOrder(s) ==
    /\ \A marker \in {SCORE_, COMMENTS_, CONFIDENCE_} :
          Occurrences(s, marker) = 1
    /\ Find(s, SCORE_, 1) < Find(s, COMMENTS_, 1)
    /\ Find(s, COMMENTS_, 1) < Find(s, CONFIDENCE_, 1)

\* text without the markup characters and without surrounding whitespace
MarkupStripped(s) == strip(SelectSeq(s, LAMBDA c : c \notin {"*", "#"}))

\* C7 (as claimed): for a response with the three markers in order the score
\* is the number between SCORE: and COMMENTS:, the comments are the
\* markup-stripped text between COMMENTS: and CONFIDENCE: with the spaces
\* between its words kept, the confidence is the text after CONFIDENCE:; the
\* example response yields 85.0, "good job" and "4".
C7_FieldsOfOrderedResponse ==
    (pc = "parsed" /\ MarkersInOrder(response)) =>
        /\ LET number == float(MarkupStripped(Between(response, SCORE_, COMMENTS_)))
           IN  number.error = "" => NumEq(parsed.score, number.value)
        /\ parsed.comments =
              MarkupStripped(Between(response, COMMENTS_, CONFIDENCE_))
        /\ parsed.confidence = MarkupStripped(TailGroup(response, CONFIDENCE_))
        /\ response = ExampleResponse =>
              /\ NumEq(parsed.score, Number(85, 1))
              /\ parsed.comments = <<"g", "o", "o", "d", SP, "j", "o", "b">>
              /\ parsed.confidence = <<"4">>

---------------------------------------------------------------------------
(* preprocess_student_submission: the student name *)

WordChars ==
    {"a", "b", "c", "d", "e", "f", "g", "h", "i", "j", "k", "l", "m", "n",
     "o", "p", "q", "r", "s", "t", "u", "v", "w", "x", "y", "z",
     "A", "B", "C", "D", "E", "F", "G", "H", "I", "J", "K", "L", "M", "N",
     "O", "P", "Q", "R", "S", "T", "U", "V", "W", "X", "Y", "Z",
     "0", "1", "2", "3", "4", "5", "6", "7", "8", "9", "_"}

\* re.sub(r'[^\w\s]', '', line).strip()
NameOfLine(line) ==
    strip(SelectSeq(line, LAMBDA c : c \in WordChars \/ IsSpace(c)))

\* the name taken from the first line that is not empty once stripped, ""
\* when there is none
StudentName(text) ==
    LET lines == readlines(text)
        full == {n \in 1..Len(lines) : strip(lines[n]) # <<>>}
    IN  IF full = {} THEN <<>>
        ELSE NameOfLine(strip(lines[CHOOSE n \in full : \A m \in full : n <= m]))

\* student_name.replace(" ", "")
NoSpaces(name) == SelectSeq(name, LAMBDA c : c # SP)

---------------------------------------------------------------------------
(* check_formatting *)

Min(a, b) == IF a <= b THEN a ELSE b

\* True * per is per, False * per is 0
BoolCount(b) == IF b THEN 1 ELSE 0

\* check_formatting without the caps
check_formatting_uncapped(text, cfg) ==
    check_brackets(text) * cfg.brackets.per
      + BoolCount(check_new_lines(text)) * cfg.new_lines.per

check_formatting(text, cfg) ==
    Min(cfg.brackets.max, check_brackets(text) * cfg.brackets.per)
      + Min(cfg.new_lines.max,
            BoolCount(check_new_lines(text)) * cfg.new_lines.per)

\* score -= deductions
Minus(score, deductions) == Number(score.num - deductions * score.den, score.den)

---------------------------------------------------------------------------
(* grade_submissions *)

\* a header comment with the name, then braces each on a line of their own
FileAllman ==
    <<"/", "/", SP, "J", "a", "n", "e", SP, "D", "o", "e", NL,
      "{", NL, "}", NL>>

\* the name, a print statement at the start of a line, three lines
\* that hold a brace and more
FileDense ==
    <<"J", "a", "n", "e", "D", "o", "e", NL>> \o
    Println \o <<DQ, "x", DQ, ")", ";", NL>> \o
    <<"a", "{", NL, "b", "{", NL, "c", "{", NL>>

\* another name, both braces on one line
FileOneLine == <<"A", "l", NL, "{", SP, "}", NL>>

FileTexts == {FileAllman, FileDense, FileOneLine}

\* format_scoring and grading_breakdown_folder of config.json, with costs and
\* caps that are not negative
Configs ==
    {[brackets |-> [per |-> c[1], max |-> 5],
      new_lines |-> [per |-> 2, max |-> c[2]],
      grading_breakdown_folder |-> "GradingBreakdowns"] :
        c \in {<<2, 2>>, <<0, 1>>}}

DirNames == {"GradingBreakdowns", "out"}

\* what call_api returns when it returns
ResponseGood ==
    SCORE_ \o <<"9", "0">> \o COMMENTS_ \o <<"o", "k">> \o CONFIDENCE_ \o <<"4">>

ResponseNoMarkers == <<"n", "o">>

Responses == {ResponseGood, ResponseNoMarkers}

InitBatch ==
    /\ pc = "start"
    /\ files \in [1..NumFiles -> FileTexts]
    /\ config \in Configs
    /\ grading_breakdown_dir \in DirNames
    /\ dirs \in {{}, {"GradingBreakdowns"}}
    /\ written = <<>>
    /\ assignment = ""
    /\ idx = 1
    /\ student_name = <<>>
    /\ ai_response = <<>>
    /\ results = <<>>
    /\ reported = <<>>
    /\ outcome = [i \in 1..NumFiles |-> "pending"]
    /\ NoText
    /\ NoParse

\* lines 288-298: the scoring sheet is read (an error leaves the function),
\* parse_assignment_pdf returns the text or (None, None), the system prompt
\* is built from either, and grading_breakdown_dir is created
Start ==
    /\ pc = "start"
    /\ \E sheet_read, pdf_extracted \in BOOLEAN :
          IF ~sheet_read
          THEN /\ pc' = "raised"
               /\ UNCHANGED <<assignment, dirs>>
          ELSE /\ assignment' = (IF pdf_extracted THEN "extracted" ELSE "None")
               /\ dirs' = dirs \cup {grading_breakdown_dir}
               /\ pc' = "loop"
    /\ UNCHANGED <<files, config, grading_breakdown_dir, written, idx,
                   student_name, ai_response, results, reported, outcome,
                   textVars, parseVars>>

\* line 301, outside the try: the file is read and the name taken; an error
\* of the read leaves grade_submissions
Preprocess ==
    /\ pc = "loop"
    /\ idx <= NumFiles
    /\ \E read \in BOOLEAN :
          IF read
          THEN /\ student_name' = StudentName(files[idx])
               /\ pc' = "judge"
               /\ UNCHANGED outcome
          ELSE /\ outcome' = [outcome EXCEPT ![idx] = "unreadable at normalization"]
               /\ pc' = "raised"
               /\ UNCHANGED student_name
    /\ UNCHANGED <<files, config, grading_breakdown_dir, dirs, written,
                   assignment, idx, ai_response, results, reported,
                   textVars, parseVars>>

\* an except branch that lets the error leave the function
ExceptReraise(kind) ==
    /\ outcome' = [outcome EXCEPT ![idx] = kind]
    /\ pc' = "raised"
    /\ UNCHANGED <<reported, idx, results>>

\* lines 324-325: the error is printed with the name, the loop goes on
Except(kind) ==
    /\ reported' = Append(reported, student_name)
    /\ outcome' = [outcome EXCEPT ![idx] = kind]
    /\ idx' = idx + 1
    /\ pc' = "loop"
    /\ UNCHANGED results

\* line 306: call_api returns a text or raises
Judge ==
    /\ pc = "judge"
    /\ \/ \E r \in Responses :
             /\ ai_response' = r
             /\ pc' = "write"
             /\ UNCHANGED <<reported, outcome, idx, results>>
       \/ /\ Except("judgment failed")
          /\ UNCHANGED ai_response
    /\ UNCHANGED <<files, config, grading_breakdown_dir, dirs, written,
                   assignment, student_name, textVars, parseVars>>

\* the path of line 310
BreakdownPath(cfg, name) == <<cfg.grading_breakdown_folder, NoSpaces(name)>>

\* lines 308-311: the response is written under config's folder; open fails
\* when that directory does not exist
WriteBreakdown ==
    /\ pc = "write"
    /\ IF config.grading_breakdown_folder \in dirs
       THEN /\ written' =
                 [q \in DOMAIN written \cup {BreakdownPath(config, student_name)} |->
                    IF q = BreakdownPath(config, student_name)
                    THEN ai_response ELSE written[q]]
            /\ pc' = "grade"
            /\ UNCHANGED <<reported, outcome, idx, results>>
       ELSE /\ Except("write failed")
            /\ UNCHANGED written
    /\ UNCHANGED <<files, config, grading_breakdown_dir, dirs, assignment,
                   student_name, ai_response, textVars, parseVars>>

\* lines 313-322: the response is parsed, check_formatting reads the file
\* again (an error goes to the except branch), the row is appended
Grade ==
    /\ pc = "grade"
    /\ \E read \in BOOLEAN :
          IF read
          THEN /\ results' = Append(results,
                     [Name |-> student_name,
                      Score |-> Minus(parse_ai_response(ai_response).score,
                                      check_formatting(files[idx], config)),
                      Confidence |-> parse_ai_response(ai_response).confidence,
                      Comments |-> parse_ai_response(ai_response).comments])
               /\ outcome' = [outcome EXCEPT ![idx] = "graded"]
               /\ idx' = idx + 1
               /\ pc' = "loop"
               /\ UNCHANGED reported
          ELSE Except("unreadable at style analysis")
    /\ UNCHANGED <<files, config, grading_breakdown_dir, dirs, written,
                   assignment, student_name, ai_response, textVars, parseVars>>

\* line 327
Return ==
    /\ pc = "loop"
    /\ idx > NumFiles
    /\ pc' = "returned"
    /\ UNCHANGED <<batchVars, textVars, parseVars>>

Next == Start \/ Preprocess \/ Judge \/ WriteBreakdown \/ Grade \/ Return

Spec == InitBatch /\ [][Next]_vars

---------------------------------------------------------------------------
(* Claims about grade_submissions, under Spec *)

\* the loop has just appended the row of file idx - 1; ai_response still
\* holds that file's response
JustGraded ==
    /\ pc \in {"loop", "returned"}
    /\ idx > 1
    /\ outcome[idx - 1] = "graded"

\* min(max_cap, count * per_violation_cost) for one style rule
CappedDeduction(rule, count) == Min(rule.max, count * rule.per)

\* the total deduction of a file, as the claim computes it
ClaimedDeduction(text) ==
    CappedDeduction(config.brackets, check_brackets(text))
      + CappedDeduction(config.new_lines, BoolCount(check_new_lines(text)))

\* C8: the recorded score is the parsed model score minus the sum over the
\* two rules of min(cap, count * cost), unclipped; the deduction lies between
\* 0 and the sum of the caps; 90 with deduction 7 gives 83; the sentinel -100
\* gives at most -93.
C8_ScoreIsModelMinusCappedDeductions ==
    JustGraded =>
        LET row == results[Len(results)]
            model == parse_ai_response(ai_response).score
            ded == ClaimedDeduction(files[idx - 1])
        IN  /\ row.Score.num * model.den
                 = (model.num - ded * model.den) * row.Score.den
            /\ 0 <= ded /\ ded <= config.brackets.max + config.new_lines.max
            /\ (NumEq(model, Number(90, 1)) /\ ded = 7)
                  => NumEq(row.Score, Number(83, 1))
            /\ NumEq(model, Number(-100, 1))
                  => row.Score.num <= (0 - 93) * row.Score.den

\* C8 witness: a row with model score 90 and deduction 7 (brace cap 5 reached
\* by three lines at cost 2, boundary print 2) has been recorded as 83.
C8_Witness ==
    /\ JustGraded
    /\ NumEq(parse_ai_response(ai_response).score, Number(90, 1))
    /\ check_brackets(files[idx - 1]) * config.brackets.per > config.brackets.max
    /\ ClaimedDeduction(files[idx - 1]) = 7
    /\ results[Len(results)].Score = Number(83, 1)

\* the files whose processing completed without error
GradedFiles == {i \in 1..NumFiles : outcome[i] = "graded"}

\* the files whose error the except branch caught
CaughtFiles ==
    {i \in 1..NumFiles :
        outcome[i] \in {"judgment failed", "write failed",
                        "unreadable at style analysis"}}

\* the table holds one row per completed file, in processing order, a failed
\* judgment call is reported, adds no row and the loop is past that file
RowsAreTheCompletedFiles ==
    /\ Len(results) = Cardinality(GradedFiles)
    /\ \A k \in 1..Len(results) :
          results[k].Name = StudentName(files[KthOf(GradedFiles, k)])
    /\ Len(reported) = Cardinality(CaughtFiles)
    /\ \A i \in 1..NumFiles :
          outcome[i] = "judgment failed" =>
             /\ idx > i
             /\ \E k \in 1..Len(reported) : reported[k] = StudentName(files[i])
    /\ pc = "returned" => \A i \in 1..NumFiles : outcome[i] # "pending"

\* C9: a failed judgment call is reported and skipped, the later submissions
\* are processed, the returned table holds exactly the rows of the completed
\* submissions in processing order, and the result list only grows by
\* appends.
C9_JudgmentFailureIsSkipped ==
    /\ []RowsAreTheCompletedFiles
    /\ [][\/ results' = results
          \/ /\ Len(results') = Len(results) + 1
             /\ SubSeq(results', 1, Len(results)) = results]_vars

\* C9 witness: the judgment call of the first file failed, the second file
\* was graded, and the table returned holds the second file's row only.
C9_Witness ==
    /\ pc = "returned"
    /\ outcome[1] = "judgment failed"
    /\ outcome[2] = "graded"
    /\ Len(results) = 1
    /\ results[1].Name = StudentName(files[2])
    /\ reported = <<StudentName(files[1])>>

\* C10 (as claimed): an unreadable submission file, at normalization or at
\* style analysis, is skipped with a warning and the loop goes on to the
\* remaining submissions.
C10_UnreadableFileIsSkipped ==
    \A i \in 1..NumFiles :
        outcome[i] \in {"unreadable at normalization",
                        "unreadable at style analysis"} =>
           /\ pc # "raised"
           /\ idx > i
           /\ \E k \in 1..Len(reported) : reported[k] = StudentName(files[i])

\* a judgment call has been made in this run
JudgmentCallMade ==
    \/ pc \in {"write", "grade"}
    \/ \E i \in 1..NumFiles :
          outcome[i] \in {"judgment failed", "write failed", "graded",
                          "unreadable at style analysis"}

\* C11 (as claimed): when parse_assignment_pdf yields no title and no prompt
\* the run is aborted before any submission is judged: no judgment call, no
\* breakdown record, no grade rows, and no table is returned to the caller.
C11_NoAssignmentAbortsRun ==
    assignment = "None" =>
        /\ ~JudgmentCallMade
        /\ written = <<>>
        /\ results = <<>>
        /\ pc # "returned"

\* C12 (as claimed): the breakdown writes of two different submissions of
\* one run never target the same name, so no write replaces a record that an
\* earlier submission of the run wrote.
C12_BreakdownWritesAreDistinct ==
    [][(pc = "write" /\ pc' = "grade")
          => BreakdownPath(config, student_name) \notin DOMAIN written]_vars

\* C13 (as claimed): every breakdown write targets the directory the run
\* created from grading_breakdown_dir, so no write fails for want of the
\* directory.
C13_WritesGoToCreatedDirectory ==
    /\ pc \in {"write", "grade"}
          => config.grading_breakdown_folder = grading_breakdown_dir
    /\ \A i \in 1..NumFiles : outcome[i] # "write failed"

====
